---- MODULE Spec2Model ----
(***************************************************************************)
(* Model of src/main.py: a MicroPython program for the Pico W that joins   *)
(* a Wi-Fi network, listens on port 80 and answers every connection with   *)
(* the DHT11 reading in the Prometheus text format.                        *)
(*                                                                         *)
(* The program is one sequential thread; pc is its position.  The          *)
(* environment (the Wi-Fi link, the clock, the garbage collector, the      *)
(* clients and the sensor) is modelled by separate actions and by the      *)
(* nondeterministic outcome of each library call.                          *)
(***************************************************************************)
EXTENDS Integers, Sequences, FiniteSets, TLC

\* ------------------------------------------------------------------ bounds

\* longest request (in bytes) a client sends in the model
MaxReqLen == 2
\* the clock runs from 0 to MaxTime
MaxTime == 2
\* most accepted connections that can be open and unreferenced at once
MaxLeaked == 2

\* bytes a client may send: 'G', and 0xC3 0xA9 (the two bytes of U+00E9)
ReqBytes == {71, 195, 169}
\* raw values the DHT11 may deliver
RawTemps == {19, 42}
RawHums == {55}
\* addresses the access point may hand out
IpPool == {"ip1", "ip2"}

\* ---------------------------------------------------------------- constants

\* conn.recv(1024)
RecvBufSize == 1024
\* temp = (sensor.temperature())-20
TempOffset == 20

\* Python's None and a present value v
None == <<>>
Some(v) == <<v>>
NoExc == [site |-> "none", type |-> "none"]

\* the first send of the response
HttpHeader == "HTTP/1.0 200 OK\r\nContent-type: text/plain\r\n\r\n"
Labels == "sensor=\"dht11\",location=\"GH_trial\""

\* ------------------------------------------------------------------ helpers

Min(a, b) == IF a < b THEN a ELSE b

SeqsUpTo(S, n) == UNION {[1..k -> S] : k \in 0..n}

\* what a client may put on the wire before the program reads
Requests == SeqsUpTo(ReqBytes, MaxReqLen)

\* conn.recv(1024): at most RecvBufSize of the bytes the client sent
Recv(sent) == SubSeq(sent, 1, Min(Len(sent), RecvBufSize))

\* continuation bytes a UTF-8 lead byte asks for
Utf8Need(c) == IF c < 224 THEN 1 ELSE IF c < 240 THEN 2 ELSE 3

\* bytes.decode('utf-8') accepts exactly the well-formed sequences: a byte
\* below 0x80 stands alone, a lead byte 0xC0..0xF7 is followed by the
\* continuation bytes (0x80..0xBF) it asks for, anything else is an error.
RECURSIVE Utf8Check(_, _, _)
Utf8Check(b, i, need) ==
    IF i > Len(b) THEN need = 0
    ELSE IF need > 0
         THEN IF b[i] >= 128 /\ b[i] < 192
              THEN Utf8Check(b, i + 1, need - 1)
              ELSE FALSE
         ELSE IF b[i] >= 192
              THEN IF b[i] >= 248
                   THEN FALSE
                   ELSE Utf8Check(b, i + 1, Utf8Need(b[i]))
              ELSE IF b[i] >= 128
                   THEN FALSE
                   ELSE Utf8Check(b, i + 1, 0)

\* the code points of a well-formed byte string
RECURSIVE Utf8Chars(_, _)
Utf8Chars(b, i) ==
    IF i > Len(b) THEN <<>>
    ELSE IF b[i] < 128
         THEN <<b[i]>> \o Utf8Chars(b, i + 1)
         ELSE IF b[i] < 224
              THEN <<(b[i] % 32) * 64 + (b[i + 1] % 64)>> \o Utf8Chars(b, i + 2)
              ELSE IF b[i] < 240
                   THEN <<(b[i] % 16) * 4096 + (b[i + 1] % 64) * 64 + (b[i + 2] % 64)>>
                        \o Utf8Chars(b, i + 3)
                   ELSE <<(b[i] % 8) * 262144 + (b[i + 1] % 64) * 4096
                          + (b[i + 2] % 64) * 64 + (b[i + 3] % 64)>>
                        \o Utf8Chars(b, i + 4)

\* .decode('utf-8'): the string, or a raised UnicodeError
Decode(b) ==
    IF Utf8Check(b, 1, 0)
    THEN [raised |-> FALSE, value |-> Utf8Chars(b, 1)]
    ELSE [raised |-> TRUE, value |-> <<>>]

\* what one sensor.measure() can end in: a reading, OSError (no response or
\* a line-timing fault: ETIMEDOUT), or the driver's plain
\* Exception("checksum error") when the five bytes do not add up
SensorOutcomes ==
    {[kind |-> "ok", t |-> r, h |-> q] : r \in RawTemps, q \in RawHums}
    \cup {[kind |-> "timeout", t |-> 0, h |-> 0],
          [kind |-> "checksum", t |-> 0, h |-> 0]}

NoOutcome == [kind |-> "none", t |-> 0, h |-> 0]

\* "{x:.1f}" of an integer x: sign, integer part and one fractional digit
Format1f(x) ==
    [nan |-> FALSE, neg |-> x < 0, int |-> IF x < 0 THEN 0 - x ELSE x, frac |-> 0]

\* the literal NaN written in place of a sample value
NaN == [nan |-> TRUE, neg |-> FALSE, int |-> 0, frac |-> 0]

\* a fixed line of the body
Text(str) ==
    [kind |-> "text", text |-> str, metric |-> "", labels |-> "", value |-> NaN, ts |-> 0]

\* a sample line: name{labels} value timestamp
Sample(metric, value, t) ==
    [kind |-> "sample", text |-> "", metric |-> metric, labels |-> Labels,
     value |-> value, ts |-> t]

\* the two f-strings of the main loop, as lines; temp and hum are None or
\* Some(value), and formatting None with .1f raises TypeError
prometheus_output(tp, hm, t) ==
    IF tp = None /\ hm = None
    THEN [raised |-> FALSE, body |->
          << Text(""), Text(""),
             Text("# HELP temperature Temperature from DHT11 sensor"),
             Text("# TYPE temperature gauge"),
             Text(""),
             Sample("temperature", NaN, t),
             Text(""), Text(""),
             Text("# HELP Humidity Temperature from DHT11 sensor"),
             Text("# TYPE Humidity gauge"),
             Sample("humidity", NaN, t) >>]
    ELSE IF tp = None \/ hm = None
    THEN [raised |-> TRUE, body |-> <<>>]
    ELSE [raised |-> FALSE, body |->
          << Text(""),
             Text("# HELP temperature Temperature from DHT11 sensor"),
             Text("# TYPE temperature gauge"),
             Sample("temperature", Format1f(tp[1]), t),
             Text(""),
             Text("# HELP Humidity Temperature from DHT11 sensor"),
             Text("# TYPE Humidity gauge"),
             Sample("humidity", Format1f(hm[1]), t),
             Text("") >>]

\* one conn.send(...) as the client sees it
Chunk(part, lines) == [part |-> part, lines |-> lines]
HeaderChunk == Chunk("header", <<Text(HttpHeader)>>)
BodyChunk(body) == Chunk("body", body)

\* the complete response for a reading and a timestamp
Response(tp, hm, t) ==
    <<HeaderChunk, BodyChunk(prometheus_output(tp, hm, t).body)>>

\* ------------------------------------------------------------------- state

VARIABLES
    pc,            \* position of the program
    creds,         \* secrets.py can be imported
    led,           \* the on-board LED: "on" or "off"
    link,          \* the Wi-Fi link: "down", "joining" or "up"
    wlan_ip,       \* the address the interface holds
    lastPoll,      \* result of the latest wlan.isconnected(): None or Some(b)
    ip_address,    \* the program's variable ip_address
    s,             \* the listening socket: "none" or "listening"
    conn,          \* the object the variable conn names: "none", "open", "closed"
    leaked,        \* open accepted connections no variable names any more
    request,       \* the program's variable request (decoded)
    temp, hum,     \* the program's variables temp and hum
    current_time,  \* the program's variable current_time
    output,        \* the program's variable prometheus_output
    now,           \* the clock, time.time()
    wire,          \* what has been sent on the latest accepted connection
    exc,           \* the latest exception raised since the latest accept
    sensorOut,     \* outcome of sensor.measure() for the latest connection
    measures,      \* calls of sensor.measure() since the latest accept
    sensorFaulted, \* some sensor.measure() has failed so far
    binds          \* times a listening socket has been created and bound

vars == <<pc, creds, led, link, wlan_ip, lastPoll, ip_address, s, conn, leaked,
          request, temp, hum, current_time, output, now, wire, exc, sensorOut,
          measures, sensorFaulted, binds>>

netVars == <<link, wlan_ip>>
reqVars == <<request, temp, hum, current_time, output>>
connVars == <<conn, leaked, wire>>
ghostVars == <<sensorOut, measures, sensorFaulted, binds>>

Exc(site, type) == [site |-> site, type |-> type]

\* positions of the main loop from which the next step is, or leads to, accept
LoopTop == {"link_check", "re_led_off", "re_connect", "re_wait", "re_led_on",
            "re_ifconfig", "accept"}

Init ==
    /\ pc = "mac"
    /\ creds \in BOOLEAN
    /\ led = "off"
    /\ link = "down"
    /\ wlan_ip \in IpPool
    /\ lastPoll = None
    /\ ip_address = None
    /\ s = "none"
    /\ conn = "none"
    /\ leaked = 0
    /\ request = <<>>
    /\ temp = None
    /\ hum = None
    /\ current_time = 0
    /\ output = <<>>
    /\ now = 0
    /\ wire = <<>>
    /\ exc = NoExc
    /\ sensorOut = NoOutcome
    /\ measures = 0
    /\ sensorFaulted = FALSE
    /\ binds = 0

\* ----------------------------------------------------------------- startup

\* wlan.config('mac') in its try/except OSError: either way the program goes on
ReadMac ==
    /\ pc = "mac"
    /\ pc' = "import_secrets"
    /\ UNCHANGED <<creds, led, netVars, lastPoll, ip_address, s, connVars,
                   reqVars, now, exc, ghostVars>>

\* (mutant) the ImportError handler does not re-raise
AfterImportSwallowed(present) == "connect"

\* where the program goes after "import secrets": on ImportError the handler
\* prints and re-raises, which ends the program
AfterImport(present) == IF present THEN "connect" ELSE "halted"

ImportSecrets ==
    /\ pc = "import_secrets"
    /\ pc' = AfterImport(creds)
    /\ exc' = IF creds THEN exc ELSE Exc("import_secrets", "ImportError")
    /\ UNCHANGED <<creds, led, netVars, lastPoll, ip_address, s, connVars,
                   reqVars, now, ghostVars>>

\* wlan.connect(ssid, password) returned: the interface starts joining
ConnectOk(at, next) ==
    /\ pc = at
    /\ pc' = next
    /\ link' = IF link = "up" THEN "up" ELSE "joining"
    /\ UNCHANGED <<creds, led, wlan_ip, lastPoll, ip_address, s, connVars,
                   reqVars, now, exc, ghostVars>>

\* wlan.connect(ssid, password) raised OSError (the join was refused); the
\* call stands outside every try, so the exception ends the program
ConnectFault(at) ==
    /\ pc = at
    /\ pc' = "terminated"
    /\ exc' = Exc(at, "OSError")
    /\ UNCHANGED <<creds, led, netVars, lastPoll, ip_address, s, connVars,
                   reqVars, now, ghostVars>>

\* (mutant) the wait is left after one poll, whatever the poll says
WaitLinkOnce(at, next) ==
    /\ pc = at
    /\ lastPoll' = Some(link = "up")
    /\ pc' = next
    /\ UNCHANGED <<creds, led, netVars, ip_address, s, connVars, reqVars, now,
                   exc, ghostVars>>

\* one round of "while not wlan.isconnected(): time.sleep(1)"
WaitLink(at, next) ==
    /\ pc = at
    /\ lastPoll' = Some(link = "up")
    /\ pc' = IF link = "up" THEN next ELSE at
    /\ UNCHANGED <<creds, led, netVars, ip_address, s, connVars, reqVars, now,
                   exc, ghostVars>>

\* (mutant) led.on() is missing
LedOnSkipped(at, next) ==
    /\ pc = at
    /\ pc' = next
    /\ UNCHANGED <<creds, led, netVars, lastPoll, ip_address, s, connVars,
                   reqVars, now, exc, ghostVars>>

\* led.on()
LedOn(at, next) ==
    /\ pc = at
    /\ pc' = next
    /\ led' = "on"
    /\ UNCHANGED <<creds, netVars, lastPoll, ip_address, s, connVars, reqVars,
                   now, exc, ghostVars>>

\* ip_address = wlan.ifconfig()[0]
IfConfig(at, next) ==
    /\ pc = at
    /\ pc' = next
    /\ ip_address' = Some(wlan_ip)
    /\ UNCHANGED <<creds, led, netVars, lastPoll, s, connVars, reqVars, now,
                   exc, ghostVars>>

StartConnect == ConnectOk("connect", "wait_link")
StartConnectFault == ConnectFault("connect")
StartWait == WaitLink("wait_link", "led_on")
StartLedOn == LedOn("led_on", "ifconfig")
StartIfConfig == IfConfig("ifconfig", "listen")

\* socket(), bind(('0.0.0.0', 80)), listen(1)
Listen ==
    /\ pc = "listen"
    /\ pc' = "link_check"
    /\ s' = "listening"
    /\ binds' = binds + 1
    /\ UNCHANGED <<creds, led, netVars, lastPoll, ip_address, connVars, reqVars,
                   now, exc, sensorOut, measures, sensorFaulted>>

\* --------------------------------------------------------------- main loop

\* (mutant) the test is inverted: the branch is taken when the link is up
LinkCheckInverted(up) == IF up THEN "re_led_off" ELSE "accept"

\* where "if not wlan.isconnected():" leads for a poll result
LinkCheckNext(up) == IF up THEN "accept" ELSE "re_led_off"

\* "if not wlan.isconnected():" at the top of an iteration
LinkCheck ==
    /\ pc = "link_check"
    /\ lastPoll' = Some(link = "up")
    /\ pc' = LinkCheckNext(link = "up")
    /\ UNCHANGED <<creds, led, netVars, ip_address, s, connVars, reqVars, now,
                   exc, ghostVars>>

\* (mutant) the reconnect branch leaves the LED as it is
LedOffSkipped == led

\* the state led.off() puts the LED in
LedOff == "off"

\* led.off() of the reconnect branch
ReLedOff ==
    /\ pc = "re_led_off"
    /\ pc' = "re_connect"
    /\ led' = LedOff
    /\ UNCHANGED <<creds, netVars, lastPoll, ip_address, s, connVars, reqVars,
                   now, exc, ghostVars>>

ReConnect == ConnectOk("re_connect", "re_wait")
ReConnectFault == ConnectFault("re_connect")
ReWait == WaitLink("re_wait", "re_led_on")
ReLedOn == LedOn("re_led_on", "re_ifconfig")
ReIfConfig == IfConfig("re_ifconfig", "accept")

\* (mutant) the handlers let the exception go on
ExceptNextUncaught(type) == "terminated"

\* the two handlers of the loop's try: both print and "continue", so the
\* next position is the top of the loop whatever the exception is
ExceptNext(type) ==
    CASE type = "OSError" -> "link_check"
      [] OTHER -> "link_check"

\* an exception raised inside the try at some site
Raise(site, type) ==
    /\ exc' = Exc(site, type)
    /\ pc' = ExceptNext(type)

\* conn, addr = s.accept() returned: a client has connected.  The variable
\* conn is rebound; if it still named an open connection, nothing names
\* that one any more.
Accept ==
    /\ pc = "accept"
    /\ s = "listening"
    /\ link = "up"
    /\ leaked + (IF conn = "open" THEN 1 ELSE 0) <= MaxLeaked
    /\ leaked' = leaked + (IF conn = "open" THEN 1 ELSE 0)
    /\ conn' = "open"
    /\ wire' = <<>>
    /\ exc' = NoExc
    /\ sensorOut' = NoOutcome
    /\ measures' = 0
    /\ pc' = "recv"
    /\ UNCHANGED <<creds, led, netVars, lastPoll, ip_address, s, reqVars, now,
                   sensorFaulted, binds>>

\* s.accept() raised OSError
AcceptFault ==
    /\ pc = "accept"
    /\ Raise("accept", "OSError")
    /\ UNCHANGED <<creds, led, netVars, lastPoll, ip_address, s, connVars,
                   reqVars, now, ghostVars>>

\* request = conn.recv(1024).decode('utf-8'): the client has sent q
RecvRequest ==
    /\ pc = "recv"
    /\ \E q \in Requests :
         LET d == Decode(Recv(q)) IN
         IF d.raised
         THEN /\ Raise("decode", "UnicodeError")
              /\ UNCHANGED request
         ELSE /\ request' = d.value
              /\ pc' = "measure"
              /\ UNCHANGED exc
    /\ UNCHANGED <<creds, led, netVars, lastPoll, ip_address, s, connVars,
                   temp, hum, current_time, output, now, ghostVars>>

\* conn.recv(1024) raised OSError
RecvFault ==
    /\ pc = "recv"
    /\ Raise("recv", "OSError")
    /\ UNCHANGED <<creds, led, netVars, lastPoll, ip_address, s, connVars,
                   reqVars, now, ghostVars>>

\* (mutant) once a measurement has failed, every later call reports no reading
read_dht_data_latched(o) ==
    IF sensorFaulted
    THEN [raised |-> FALSE, temp |-> None, hum |-> None]
    ELSE CASE o.kind = "ok" ->
                [raised |-> FALSE, temp |-> Some(o.t - TempOffset), hum |-> Some(o.h)]
           [] o.kind = "timeout" ->
                [raised |-> FALSE, temp |-> None, hum |-> None]
           [] OTHER ->
                [raised |-> TRUE, temp |-> None, hum |-> None]

\* (mutant) a reading once taken is kept and returned again
read_dht_data_cached(o) ==
    IF temp # None
    THEN [raised |-> FALSE, temp |-> temp, hum |-> hum]
    ELSE CASE o.kind = "ok" ->
                [raised |-> FALSE, temp |-> Some(o.t - TempOffset), hum |-> Some(o.h)]
           [] o.kind = "timeout" ->
                [raised |-> FALSE, temp |-> None, hum |-> None]
           [] OTHER ->
                [raised |-> TRUE, temp |-> None, hum |-> None]

\* (mutant) the handler returns None, 0 in place of None, None
read_dht_data_partial(o) ==
    CASE o.kind = "ok" ->
           [raised |-> FALSE, temp |-> Some(o.t - TempOffset), hum |-> Some(o.h)]
      [] o.kind = "timeout" ->
           [raised |-> FALSE, temp |-> None, hum |-> Some(0)]
      [] OTHER ->
           [raised |-> TRUE, temp |-> None, hum |-> None]

\* (mutant) the calibration offset is not applied
read_dht_data_raw(o) ==
    CASE o.kind = "ok" ->
           [raised |-> FALSE, temp |-> Some(o.t), hum |-> Some(o.h)]
      [] o.kind = "timeout" ->
           [raised |-> FALSE, temp |-> None, hum |-> None]
      [] OTHER ->
           [raised |-> TRUE, temp |-> None, hum |-> None]

\* read_dht_data(): the pair it returns, or the exception that leaves it.
\* Only OSError is caught inside the function.
read_dht_data(o) ==
    CASE o.kind = "ok" ->
           [raised |-> FALSE, temp |-> Some(o.t - TempOffset), hum |-> Some(o.h)]
      [] o.kind = "timeout" ->
           [raised |-> FALSE, temp |-> None, hum |-> None]
      [] OTHER ->
           [raised |-> TRUE, temp |-> None, hum |-> None]

\* temp, hum = read_dht_data()
ReadSensor ==
    /\ pc = "measure"
    /\ \E o \in SensorOutcomes :
         LET r == read_dht_data(o) IN
         /\ sensorOut' = o
         /\ sensorFaulted' = (sensorFaulted \/ o.kind # "ok")
         /\ IF r.raised
            THEN /\ Raise("measure", "Exception")
                 /\ UNCHANGED <<temp, hum>>
            ELSE /\ temp' = r.temp
                 /\ hum' = r.hum
                 /\ pc' = "render"
                 /\ UNCHANGED exc
    /\ measures' = measures + 1
    /\ UNCHANGED <<creds, led, netVars, lastPoll, ip_address, s, connVars,
                   request, current_time, output, now, binds>>

\* current_time = int(time.time()) and the f-string of the taken branch
Render ==
    /\ pc = "render"
    /\ current_time' = now
    /\ LET r == prometheus_output(temp, hum, now) IN
         IF r.raised
         THEN /\ Raise("render", "TypeError")
              /\ UNCHANGED output
         ELSE /\ output' = r.body
              /\ pc' = "send_header"
              /\ UNCHANGED exc
    /\ UNCHANGED <<creds, led, netVars, lastPoll, ip_address, s, connVars,
                   request, temp, hum, now, ghostVars>>

\* (mutant) the header is not sent
SendHeaderSkipped ==
    /\ pc = "send_header"
    /\ pc' = "send_body"
    /\ UNCHANGED <<creds, led, netVars, lastPoll, ip_address, s, connVars,
                   reqVars, now, exc, ghostVars>>

\* conn.send('HTTP/1.0 200 OK ...')
SendHeader ==
    /\ pc = "send_header"
    /\ pc' = "send_body"
    /\ wire' = Append(wire, HeaderChunk)
    /\ UNCHANGED <<creds, led, netVars, lastPoll, ip_address, s, conn, leaked,
                   reqVars, now, exc, ghostVars>>

\* conn.send(prometheus_output.encode())
SendBody ==
    /\ pc = "send_body"
    /\ pc' = "close"
    /\ wire' = Append(wire, BodyChunk(output))
    /\ UNCHANGED <<creds, led, netVars, lastPoll, ip_address, s, conn, leaked,
                   reqVars, now, exc, ghostVars>>

\* either conn.send raised OSError: nothing of that send reaches the client
SendFault ==
    /\ pc \in {"send_header", "send_body"}
    /\ Raise(pc, "OSError")
    /\ UNCHANGED <<creds, led, netVars, lastPoll, ip_address, s, connVars,
                   reqVars, now, ghostVars>>

\* (mutant) s.close() is written for conn.close()
CloseListener ==
    /\ pc = "close"
    /\ pc' = "link_check"
    /\ s' = "none"
    /\ UNCHANGED <<creds, led, netVars, lastPoll, ip_address, connVars,
                   reqVars, now, exc, ghostVars>>

\* conn.close(), the last statement of the try
Close ==
    /\ pc = "close"
    /\ pc' = "link_check"
    /\ conn' = "closed"
    /\ UNCHANGED <<creds, led, netVars, lastPoll, ip_address, s, leaked, wire,
                   reqVars, now, exc, ghostVars>>

\* ------------------------------------------------------------- environment

\* the Wi-Fi link drops
LinkLost ==
    /\ link = "up"
    /\ link' = "down"
    /\ UNCHANGED <<pc, creds, led, wlan_ip, lastPoll, ip_address, s, connVars,
                   reqVars, now, exc, ghostVars>>

\* the join started by wlan.connect completes and an address is assigned
LinkAcquired ==
    /\ link = "joining"
    /\ link' = "up"
    /\ wlan_ip' \in IpPool
    /\ UNCHANGED <<pc, creds, led, lastPoll, ip_address, s, connVars, reqVars,
                   now, exc, ghostVars>>

\* the clock advances
Tick ==
    /\ now < MaxTime
    /\ now' = now + 1
    /\ UNCHANGED <<pc, creds, led, netVars, lastPoll, ip_address, s, connVars,
                   reqVars, exc, ghostVars>>

\* the garbage collector finalises the sockets nothing names: they are closed
Collect ==
    /\ leaked > 0
    /\ leaked' = 0
    /\ UNCHANGED <<pc, creds, led, netVars, lastPoll, ip_address, s, conn, wire,
                   reqVars, now, exc, ghostVars>>

Next ==
    \/ ReadMac
    \/ ImportSecrets
    \/ StartConnect
    \/ StartConnectFault
    \/ StartWait
    \/ StartLedOn
    \/ StartIfConfig
    \/ Listen
    \/ LinkCheck
    \/ ReLedOff
    \/ ReConnect
    \/ ReConnectFault
    \/ ReWait
    \/ ReLedOn
    \/ ReIfConfig
    \/ Accept
    \/ AcceptFault
    \/ RecvRequest
    \/ RecvFault
    \/ ReadSensor
    \/ Render
    \/ SendHeader
    \/ SendBody
    \/ SendFault
    \/ Close
    \/ LinkLost
    \/ LinkAcquired
    \/ Tick
    \/ Collect

Spec == Init /\ [][Next]_vars

\* the steps the program takes by itself when no call raises
ProgramStep ==
    \/ ReadMac
    \/ ImportSecrets
    \/ StartConnect
    \/ StartWait
    \/ StartLedOn
    \/ StartIfConfig
    \/ Listen
    \/ LinkCheck
    \/ ReLedOff
    \/ ReConnect
    \/ ReWait
    \/ ReLedOn
    \/ ReIfConfig
    \/ Accept
    \/ RecvRequest
    \/ ReadSensor
    \/ Render
    \/ SendHeader
    \/ SendBody
    \/ Close

\* The program keeps running: a statement that can complete does complete
\* (a client connects whenever the link stays up), and a join that was
\* started completes (the access point is reachable).  Nothing forces a
\* call to raise, the link to drop or the collector to run.
FairSpec == Spec /\ WF_vars(ProgramStep) /\ WF_vars(LinkAcquired)

\* ------------------------------------------------------------------ claims

\* sites of the calls made on the sockets inside the try
TransportSites == {"accept", "recv", "send_header", "send_body"}

\* the handling of the latest accepted connection is over
Handled == pc \in LoopTop /\ conn # "none"

\* C1: whenever the program is about to call accept, the connection it
\* accepted before is closed and no accepted connection is left open.
C1_ClosedBeforeAccept ==
    pc = "accept" => (conn # "open" /\ leaked = 0)

\* C2: an OSError raised by accept, recv or send never ends the program:
\* the step that raises it leads to the top of the loop, and the program is
\* never terminated with such an exception as the cause.
C2_TransportFaultsCaught ==
    /\ [](pc = "terminated" => exc.site \notin TransportSites)
    /\ [][(pc \in TransportSites /\ pc' # pc /\ exc' = Exc(pc, "OSError"))
            => pc' = "link_check"]_vars

\* C2 witness: after a caught transport fault the program is at accept again
C2_Witness ==
    pc = "accept" /\ exc.site \in TransportSites /\ exc.type = "OSError"

\* C3: no exception ever leaves read_dht_data.
C3_NoSensorException ==
    exc.site # "measure"

\* C4: when the measurement of a request failed and no socket call faulted,
\* the client got the complete response with NaN samples, after exactly
\* one measurement.
C4_SensorFailureServedNaN ==
    (Handled /\ sensorOut.kind \in {"timeout", "checksum"}
             /\ exc.site \notin TransportSites)
    => (wire = Response(None, None, current_time) /\ measures = 1)

\* C5: after some earlier measurement has failed, a request whose
\* measurement succeeds and that meets no fault gets the complete response
\* with the values of its own measurement.
C5_FaultIsolation ==
    (Handled /\ sensorFaulted /\ sensorOut.kind = "ok"
             /\ exc = NoExc)
    => wire = Response(Some(sensorOut.t - TempOffset), Some(sensorOut.h),
                       current_time)

\* C5 witness: a request served with numbers after an earlier sensor fault
C5_Witness ==
    /\ Handled
    /\ sensorFaulted
    /\ sensorOut.kind = "ok"
    /\ exc = NoExc
    /\ Len(wire) = 2
    /\ conn = "closed"

\* C6: once a connection has been handled, the client has received either
\* the complete response or nothing.
C6_AllOrNothing ==
    Handled => (wire = <<>> \/ wire = Response(temp, hum, current_time))

\* C7: whatever the request bytes, a connection on which no socket call
\* and no measurement faulted got the response for its reading and time.
C7_RequestIgnored ==
    (Handled /\ exc.site \in {"none", "decode"})
    => wire = Response(temp, hum, current_time)

C9_NoCredsNoNetwork ==
    ~creds => /\ link = "down"
              /\ s = "none"
              /\ pc \in {"mac", "import_secrets", "halted"}

\* C9 witness: the program has halted on the missing credentials
C9_Witness ==
    ~creds /\ pc = "halted" /\ exc = Exc("import_secrets", "ImportError")

\* C10: once the listener is up, the program is never terminated.
C10_LoopNeverTerminates ==
    pc = "terminated" => s = "none"

\* C11: a connection sees at most one measurement, taken after its request
\* was read and while it is open; whatever is sent follows exactly one
\* measurement, and a body sent renders the outcome of that measurement.
C11_FreshMeasurement ==
    /\ [](measures <= 1)
    /\ [](Len(wire) >= 1 => measures = 1)
    /\ [](Len(wire) = 2 =>
            LET tp == IF sensorOut.kind = "ok"
                      THEN Some(sensorOut.t - TempOffset) ELSE None
                hm == IF sensorOut.kind = "ok" THEN Some(sensorOut.h) ELSE None
            IN  /\ sensorOut.kind \in {"ok", "timeout"}
                /\ wire[2] = BodyChunk(prometheus_output(tp, hm, current_time).body))
    /\ [][measures' # measures =>
             \/ (pc = "accept" /\ pc' = "recv" /\ measures' = 0)
             \/ (pc = "measure" /\ conn = "open" /\ measures' = measures + 1)]_vars

\* C11 witness: a later connection is being answered, after one measurement
\* of its own, while an earlier connection was left unfinished
C11_Witness ==
    /\ pc = "close"
    /\ measures = 1
    /\ leaked > 0
    /\ sensorOut.kind = "ok"
    /\ Len(wire) = 2

\* C12: temp and hum are both None or both values, and a body sent has two
\* sample lines that are both NaN or both numeric and carry one timestamp.
C12_ReadingWhole ==
    /\ (temp = None) <=> (hum = None)
    /\ exc.site # "render"
    /\ Len(wire) = 2 =>
         LET b == wire[2].lines
             smp == {i \in DOMAIN b : b[i].kind = "sample"}
         IN  /\ Cardinality(smp) = 2
             /\ {b[i].metric : i \in smp} = {"temperature", "humidity"}
             /\ \A i, j \in smp : /\ b[i].value.nan = b[j].value.nan
                                  /\ b[i].ts = b[j].ts

\* C12 witness: a body with both samples NaN has been sent
C12_Witness ==
    /\ Len(wire) = 2
    /\ temp = None
    /\ hum = None
    /\ sensorOut.kind = "timeout"

\* C13: for a successful measurement (r, h) the body sent reports r - 20
\* with one decimal as temperature, never r, and h as humidity; raw 42 and
\* 55 are reported as 22.0 and 55.0.
C13_Calibration ==
    (Len(wire) = 2 /\ sensorOut.kind = "ok") =>
        LET b == wire[2].lines
            tl == b[CHOOSE i \in DOMAIN b : b[i].metric = "temperature"]
            hl == b[CHOOSE i \in DOMAIN b : b[i].metric = "humidity"]
        IN  /\ tl.value = Format1f(sensorOut.t - 20)
            /\ tl.value # Format1f(sensorOut.t)
            /\ hl.value = Format1f(sensorOut.h)
            /\ (sensorOut.t = 42 /\ sensorOut.h = 55) =>
                  /\ tl.value = [nan |-> FALSE, neg |-> FALSE, int |-> 22, frac |-> 0]
                  /\ hl.value = [nan |-> FALSE, neg |-> FALSE, int |-> 55, frac |-> 0]

\* C13 witness: the reading 42, 55 has been sent
C13_Witness ==
    /\ Len(wire) = 2
    /\ sensorOut = [kind |-> "ok", t |-> 42, h |-> 55]
    /\ conn = "closed"

\* C14: whenever the link is down after startup, the program later has
\* noticed it and called wlan.connect (it is in the wait that follows, or it
\* was ended by wlan.connect raising), or it has the link up again and has
\* seen it up.
C14_EventualReconnect ==
    (s = "listening" /\ link = "down")
    ~> \/ pc \in {"re_wait", "terminated"}
       \/ (link = "up" /\ lastPoll = Some(TRUE))

\* C15: after a failed link check the program turns the LED off, calls
\* wlan.connect and polls; the LED is off during the whole wait, it is
\* turned on only after a poll has found the link up, and accept is
\* reached from the reconnect branch only after that.
C15_ReconnectBeforeAccept ==
    /\ [](pc \in {"re_connect", "re_wait", "re_led_on"} => led = "off")
    /\ [](pc \in {"re_led_on", "re_ifconfig"} => lastPoll = Some(TRUE))
    /\ [][(pc = "link_check" /\ link # "up" /\ pc' # pc)
            => (pc' = "re_led_off" /\ lastPoll' = Some(FALSE))]_vars
    /\ [][(pc = "re_led_off" /\ pc' # pc)
            => (pc' = "re_connect" /\ led' = "off")]_vars
    /\ [][(pc = "re_connect" /\ pc' # pc)
            => \/ (pc' = "re_wait" /\ link' # "down")
               \/ pc' = "terminated"]_vars
    /\ [][(pc = "re_wait" /\ pc' # pc)
            => (pc' = "re_led_on" /\ link = "up")]_vars
    /\ [][(pc \in {"re_led_off", "re_connect", "re_wait", "re_led_on", "re_ifconfig"}
             /\ led = "off" /\ led' = "on")
            => (pc = "re_led_on" /\ lastPoll = Some(TRUE))]_vars
    /\ [][(pc \in {"re_led_off", "re_connect", "re_wait", "re_led_on", "re_ifconfig"}
             /\ pc' = "accept")
            => (pc = "re_ifconfig" /\ led = "on" /\ lastPoll = Some(TRUE))]_vars

\* C15 witness: the reconnect branch has seen the link up and lit the LED
C15_Witness ==
    /\ pc = "re_ifconfig"
    /\ s = "listening"
    /\ led = "on"
    /\ lastPoll = Some(TRUE)

\* C16: a link check that finds the link up leads straight to accept and
\* changes neither the link (no wlan.connect), nor the LED, nor ip_address.
C16_LinkCheckNoOp ==
    [][(pc = "link_check" /\ link = "up" /\ pc' # pc)
        => (pc' = "accept" /\ UNCHANGED <<led, ip_address, link, wlan_ip>>)]_vars

\* C16 witness: accept reached in a later iteration with the link found up
C16_Witness ==
    /\ pc = "accept"
    /\ conn = "closed"
    /\ link = "up"
    /\ lastPoll = Some(TRUE)
    /\ led = "on"

\* C17: on a connection the program sends nothing, the header, or the
\* header followed by one body, always after the request was read; the
\* connection is closed only after both, nothing is sent on it afterwards,
\* and accept is reached only from the top of an iteration.  The header is
\* the 200 OK one whatever the reading.
C17_OneResponseInOrder ==
    /\ [](LET hdr == [part |-> "header",
                      lines |-> <<Text("HTTP/1.0 200 OK\r\nContent-type: text/plain\r\n\r\n")>>]
          IN  \/ wire = <<>>
              \/ wire = <<hdr>>
              \/ (Len(wire) = 2 /\ wire[1] = hdr /\ wire[2].part = "body"))
    /\ [](Len(wire) >= 1 => (pc \notin {"recv", "measure", "render"} /\ measures = 1))
    /\ [](conn = "closed" => Len(wire) = 2)
    /\ [][wire' # wire =>
             \/ (pc = "accept" /\ pc' = "recv" /\ wire' = <<>>)
             \/ (/\ conn = "open" /\ conn' = "open"
                 /\ pc \in {"send_header", "send_body"}
                 /\ Len(wire') = Len(wire) + 1)]_vars
    /\ [][conn' # conn =>
             \/ (pc = "accept" /\ pc' = "recv" /\ conn' = "open")
             \/ (pc = "close" /\ conn' = "closed" /\ Len(wire) = 2)]_vars
    /\ [][(pc' = "accept" /\ pc # "accept")
            => pc \in {"link_check", "re_ifconfig"}]_vars

\* C17 witness: header and body have been sent for an absent reading and
\* the connection is about to be closed
C17_Witness ==
    /\ pc = "close"
    /\ conn = "open"
    /\ Len(wire) = 2
    /\ temp = None

\* C18: at accept the LED is on and the latest poll found the link up; up
\* to the first led.on() the LED is off and no listener exists, and a
\* listener exists only once the link has been seen up.
C18_AcceptWhenConnected ==
    /\ pc = "accept" => (led = "on" /\ lastPoll = Some(TRUE))
    /\ pc \in {"mac", "import_secrets", "connect", "wait_link", "led_on", "halted"}
         => (led = "off" /\ s = "none")
    /\ s = "listening" => (ip_address # None /\ lastPoll # None)

\* C18 witness: the program is at accept, LED on, while the link has dropped
\* since the poll
C18_Witness ==
    /\ pc = "accept"
    /\ led = "on"
    /\ lastPoll = Some(TRUE)
    /\ link = "down"
    /\ conn = "open"

\* C19: the listening socket is made once, at startup, and no step of the
\* loop changes it: every position of the loop has it listening, and each
\* accept is made on it.
C19_ListenerFixed ==
    /\ [](binds <= 1)
    /\ []((s = "listening") <=> (binds = 1))
    /\ [](pc \in LoopTop \cup {"recv", "measure", "render", "send_header",
                                "send_body", "close"} => s = "listening")
    /\ [][(s' # s \/ binds' # binds)
            => (pc = "listen" /\ s = "none" /\ s' = "listening" /\ binds' = 1)]_vars

\* C19 witness: after a caught fault and a reconnect the program is at
\* accept with the one listener
C19_Witness ==
    /\ pc = "accept"
    /\ s = "listening"
    /\ binds = 1
    /\ exc.type = "OSError"
    /\ ip_address = Some("ip2")
    /\ leaked > 0

====
